---- MODULE Spec2Model ----
(***************************************************************************)
(* Model of XCL::RTProfileDevice (xdp/profile/rt_profile_device.cpp): the  *)
(* device trace decoder.  One engine instance; logTrace is modelled as an  *)
(* entry step, one step per trace record of the batch and the post-pass,   *)
(* forced in that order by pc.                                             *)
(*                                                                         *)
(* Host times are doubles in the source.  They are modelled as exact       *)
(* extended rationals (finite n/d, +inf, -inf, NaN) in nanoseconds: the    *)
(* source's common factor 1/1e6 (nsec -> msec) is positive and is left     *)
(* out, it changes no comparison.  Unsigned differences are kept as        *)
(* mathematical integers: a negative value n stands for the wrapped        *)
(* residue 2^64 + n.                                                       *)
(***************************************************************************)
EXTENDS Integers, Sequences, FiniteSets, TLC

\* ------------------------------------------------------------------------
\* Program constants
\* ------------------------------------------------------------------------
mMaxTraceEvents == 262144
HOST_SEND_DELAY == 1000
TRAIN_SLOPE_NUM == 1000
TRAIN_CLOCK_MHZ == 300
XSAM_TRACE_CU_MASK == 1
XSAM_TRACE_STALL_INT_MASK == 2
XSAM_TRACE_STALL_STR_MASK == 4
XSAM_TRACE_STALL_EXT_MASK == 8
LOOP_ADD_TIME == 16
LOOP_ADD_TIME_SPM == 16
PREV_HOST_NONE == -1

\* ------------------------------------------------------------------------
\* Bounds of the model
\* ------------------------------------------------------------------------
MaxLen == 5
MaxEvents == 4
NearCap == 2
MaxClockReads == 2

\* ------------------------------------------------------------------------
\* Extended rationals standing for the doubles of the source
\* ------------------------------------------------------------------------
Fin(n, d) == [k |-> "fin", n |-> n, d |-> d]
NaN == [k |-> "nan", n |-> 0, d |-> 1]
Inf(s) == [k |-> "inf", n |-> s, d |-> 1]
Sgn(x) == IF x > 0 THEN 1 ELSE IF x < 0 THEN -1 ELSE 0
Abs(x) == IF x < 0 THEN -x ELSE x

\* a / b for two finite values given as integers (IEEE: x/0 is +-inf, 0/0 NaN)
XDiv(a, b) ==
  IF b # 0 THEN Fin(a * Sgn(b), Abs(b))
  ELSE IF a > 0 THEN Inf(1) ELSE IF a < 0 THEN Inf(-1) ELSE NaN

\* x * t for an integer t (inf * 0 is NaN)
XMulInt(x, t) ==
  CASE x.k = "fin" -> Fin(x.n * t, x.d)
    [] x.k = "inf" -> IF t = 0 THEN NaN ELSE Inf(x.n * Sgn(t))
    [] OTHER -> NaN

XNeg(x) ==
  CASE x.k = "fin" -> Fin(-x.n, x.d)
    [] x.k = "inf" -> Inf(-x.n)
    [] OTHER -> NaN

XAdd(x, y) ==
  CASE x.k = "nan" \/ y.k = "nan" -> NaN
    [] x.k = "fin" /\ y.k = "fin" ->
         IF x.d = y.d THEN Fin(x.n + y.n, x.d)
         ELSE Fin(x.n * y.d + y.n * x.d, x.d * y.d)
    [] x.k = "inf" /\ y.k = "inf" -> IF x.n = y.n THEN x ELSE NaN
    [] x.k = "inf" -> x
    [] OTHER -> y

XSub(x, y) == XAdd(x, XNeg(y))

\* x == y on doubles (NaN equals nothing)
XEq(x, y) ==
  CASE x.k = "nan" \/ y.k = "nan" -> FALSE
    [] x.k = "fin" /\ y.k = "fin" -> x.n * y.d = y.n * x.d
    [] x.k = "inf" /\ y.k = "inf" -> x.n = y.n
    [] OTHER -> FALSE

\* x >= y on doubles (every comparison with NaN is false)
XGe(x, y) ==
  CASE x.k = "nan" \/ y.k = "nan" -> FALSE
    [] x.k = "fin" /\ y.k = "fin" -> x.n * y.d >= y.n * x.d
    [] x.k = "inf" /\ y.k = "inf" -> x.n >= y.n
    [] x.k = "inf" -> x.n = 1
    [] OTHER -> y.n = -1

\* ------------------------------------------------------------------------
\* Bit operations on the 4-bit started-events mask
\* ------------------------------------------------------------------------
\* word & mask for a one-bit mask
BitAnd1(word, mask) == ((word \div mask) % 2) * mask

\* word & 0xf
Low4(word) == word % 16

\* a ^ b for 4-bit a, b
Xor4(a, b) ==
  LET x(m) == IF BitAnd1(a, m) # BitAnd1(b, m) THEN m ELSE 0
  IN x(1) + x(2) + x(4) + x(8)

\* ------------------------------------------------------------------------
\* Index sets and external collaborators
\* ------------------------------------------------------------------------
\* xclPerfMonType values the engine is called with
Types == {0, 1}
\* memory-monitor slots and compute-unit slots the inputs can address
MemSlots == 0 .. 2
CuSlots == 0 .. 1

\* slot directory (getProfileSlotName): a memory slot's name is <<cu, port>>,
\* printed "cu/port"; a name with no "/" has an empty port
AccelSlotName(c) == IF c = 0 THEN "k0" ELSE "k1"
MemorySlotName(j) ==
  CASE j = 1 -> <<"k0", "m_axi_gmem">>
    [] j = 2 -> <<"k1", "m_axi_gmem">>
    [] OTHER -> <<"Host", "">>
\* cuPortName.substr(0, cuPortName.find_first_of("/"))
CuNamePrefix(name) == name[1]

\* values trainDeviceHostTimestamps can compute from the two clocks
ProgramStarts == {0, 3}

\* getTimestampNsec: host timestamps arrive in the host domain already
getTimestampNsec(t) == t

\* ------------------------------------------------------------------------
\* State
\* ------------------------------------------------------------------------
VARIABLES
  mNumTraceEvents, mEmuTraceMsecOneCycle,
  mTrainSlope, mTrainOffset, mTrainProgramStart, mPrevTimestamp,
  mWriteStarts, mHostWriteStarts, mReadStarts, mHostReadStarts,
  mAccelMonStartedEvents, mAccelMonCuTime, mAccelMonCuHostTime,
  mAccelMonStallIntTime, mAccelMonStallStrTime, mAccelMonStallExtTime,
  mAccelMonLastTranx, mPerfMonLastTranx,
  resultVector,
  isHwEmu, workload,
  pc, type, mLength, i, prevHostTimestamp, x1, y1, trace,
  op, lastBatch, emptyAtEntry, obs, fifo, clockReads, deviceOrder

members == <<mNumTraceEvents, mEmuTraceMsecOneCycle,
  mTrainSlope, mTrainOffset, mTrainProgramStart, mPrevTimestamp,
  mWriteStarts, mHostWriteStarts, mReadStarts, mHostReadStarts,
  mAccelMonStartedEvents, mAccelMonCuTime, mAccelMonCuHostTime,
  mAccelMonStallIntTime, mAccelMonStallStrTime, mAccelMonStallExtTime,
  mAccelMonLastTranx, mPerfMonLastTranx>>
env == <<isHwEmu, workload>>
frame == <<pc, type, mLength, i, prevHostTimestamp, x1, y1, trace>>
hist == <<op, lastBatch, emptyAtEntry, obs, fifo, clockReads, deviceOrder>>
vars == <<members, resultVector, env, frame, hist>>

\* the decoder's mutable state as one record, for the decode operators
Cur ==
  [ mEmuTraceMsecOneCycle |-> mEmuTraceMsecOneCycle,
    mTrainSlope |-> mTrainSlope, mTrainOffset |-> mTrainOffset,
    mTrainProgramStart |-> mTrainProgramStart,
    mPrevTimestamp |-> mPrevTimestamp,
    mWriteStarts |-> mWriteStarts, mHostWriteStarts |-> mHostWriteStarts,
    mReadStarts |-> mReadStarts, mHostReadStarts |-> mHostReadStarts,
    mAccelMonStartedEvents |-> mAccelMonStartedEvents,
    mAccelMonCuTime |-> mAccelMonCuTime,
    mAccelMonCuHostTime |-> mAccelMonCuHostTime,
    mAccelMonStallIntTime |-> mAccelMonStallIntTime,
    mAccelMonStallStrTime |-> mAccelMonStallStrTime,
    mAccelMonStallExtTime |-> mAccelMonStallExtTime,
    mAccelMonLastTranx |-> mAccelMonLastTranx,
    mPerfMonLastTranx |-> mPerfMonLastTranx,
    resultVector |-> resultVector,
    prevHostTimestamp |-> prevHostTimestamp ]

Commit(st) ==
  /\ mEmuTraceMsecOneCycle' = st.mEmuTraceMsecOneCycle
  /\ mTrainSlope' = st.mTrainSlope
  /\ mTrainOffset' = st.mTrainOffset
  /\ mTrainProgramStart' = st.mTrainProgramStart
  /\ mPrevTimestamp' = st.mPrevTimestamp
  /\ mWriteStarts' = st.mWriteStarts
  /\ mHostWriteStarts' = st.mHostWriteStarts
  /\ mReadStarts' = st.mReadStarts
  /\ mHostReadStarts' = st.mHostReadStarts
  /\ mAccelMonStartedEvents' = st.mAccelMonStartedEvents
  /\ mAccelMonCuTime' = st.mAccelMonCuTime
  /\ mAccelMonCuHostTime' = st.mAccelMonCuHostTime
  /\ mAccelMonStallIntTime' = st.mAccelMonStallIntTime
  /\ mAccelMonStallStrTime' = st.mAccelMonStallStrTime
  /\ mAccelMonStallExtTime' = st.mAccelMonStallExtTime
  /\ mAccelMonLastTranx' = st.mAccelMonLastTranx
  /\ mPerfMonLastTranx' = st.mPerfMonLastTranx
  /\ resultVector' = st.resultVector
  /\ prevHostTimestamp' = st.prevHostTimestamp

\* ------------------------------------------------------------------------
\* Output records and the two insertion rules
\* ------------------------------------------------------------------------
DeviceTrace(slot, kind, startTime, endTime, start, end, burst) ==
  [ SlotNum |-> slot, Type |-> kind, StartTime |-> startTime,
    EndTime |-> endTime, Start |-> start, End |-> end, BurstLength |-> burst ]

\* resultVector.push_back(t)
PushBack(v, t) == Append(v, t)
\* (variant: the record is appended like every other record)
InsertFront_AtBack(v, t) == Append(v, t)
\* resultVector.insert(resultVector.begin(), t)
InsertFront(v, t) == <<t>> \o v

\* (variant: the newest entry is taken instead of the oldest)
QueueFront_Newest(q) == q[Len(q)]
\* std::queue front / pop
QueueFront(q) == Head(q)
QueuePop(q) == Tail(q)

\* (variant: the length without the closing cycle)
BurstLength_Open(startTime, timestamp) == timestamp - startTime
\* timestamp - startTime + 1, on uint64_t: sums and differences of device
\* times are taken modulo 2^64.  The device times of the model are small, so
\* an integer of the model stands for its residue modulo 2^64: a negative
\* result d (an end more than one cycle before its start) stands for the
\* wrapped value 2^64 + d.
BurstLength(startTime, timestamp) == timestamp - startTime + 1

\* getBit(flags, marker): EventFlags is modelled as the set of markers set
getBit(flags, marker) == marker \in flags

IS_READ(id) == id % 2 = 0
IS_WRITE(id) == id % 2 = 1

\* ------------------------------------------------------------------------
\* Entry check of logTrace
\* ------------------------------------------------------------------------
\* (variant: the cap test lets a call in at the cap itself)
EntryReturns_PastCap(numEvents, len) == numEvents > mMaxTraceEvents \/ len = 0
EntryReturns(numEvents, len) == numEvents >= mMaxTraceEvents \/ len = 0

\* ------------------------------------------------------------------------
\* Emulation mode: one record
\* ------------------------------------------------------------------------
\* the duplicate-host-timestamp skip rule
EmuSkipRule(rec, prevHost) ==
  rec.HostTimestamp = prevHost /\ rec.Timestamp = 1

\* (variant: the transaction is reported without the test)
EmuReport_Always(v, t) == PushBack(v, t)
\* "Only report tranx that make sense"
EmuReport(v, t) == IF XGe(t.End, t.Start) THEN PushBack(v, t) ELSE v

\* (variant: the end is left as converted)
EmuMemTrace_Unpadded(s, kind, startTime, hostStartTime, timestamp, hostNsec, eps) ==
  DeviceTrace(s, kind, startTime, timestamp, Fin(hostStartTime, 1),
              Fin(hostNsec, 1), BurstLength(startTime, timestamp))

\* the DeviceTrace of a matched emulation memory transaction
EmuMemTrace(s, kind, startTime, hostStartTime, timestamp, hostNsec, eps) ==
  LET start == Fin(hostStartTime, 1)
      end0 == Fin(hostNsec, 1)
      end == IF XEq(start, end0) THEN XAdd(end0, eps) ELSE end0
  IN DeviceTrace(s, kind, startTime, timestamp, start, end,
                 BurstLength(startTime, timestamp))

\* start marker: push device and host time
EmuStart(st, q, hq, s, timestamp, hostNsec) ==
  [st EXCEPT ![q][s] = Append(@, timestamp), ![hq][s] = Append(@, hostNsec)]

\* end marker with a non-empty start queue: pop, build, report
EmuEnd(st, q, hq, kind, s, timestamp, hostNsec) ==
  LET t == EmuMemTrace(s, kind, QueueFront(st[q][s]), QueueFront(st[hq][s]),
                       timestamp, hostNsec, st.mEmuTraceMsecOneCycle)
  IN [st EXCEPT ![q][s] = QueuePop(@), ![hq][s] = QueuePop(@),
                !.resultVector = EmuReport(@, t)]

\* (variant: the unmatched end is reported as a single-point transaction, as
\* the hardware path does)
EmuDropEnd_SinglePoint(st, kind, s, timestamp, hostNsec) ==
  [st EXCEPT !.resultVector =
     PushBack(@, DeviceTrace(s, kind, timestamp, timestamp, Fin(hostNsec, 1),
                             Fin(hostNsec, 1), 1))]
\* end marker with an empty start queue: warn and continue with the next
\* record; nothing is stored
EmuDropEnd(st, kind, s, timestamp, hostNsec) == st

\* TRUE when the record's write-last marker finds the write queue empty
EmuWriteDrop(st, rec) ==
  /\ getBit(rec.EventFlags, "XAPM_WRITE_LAST")
  /\ ~getBit(rec.EventFlags, "XAPM_WRITE_FIRST")
  /\ st.mWriteStarts[rec.TraceID \div 2] = <<>>

\* TRUE when the record's read-last marker is reached and finds the read
\* queue empty
EmuReadDrop(st, rec) ==
  /\ ~EmuWriteDrop(st, rec)
  /\ getBit(rec.EventFlags, "XAPM_READ_LAST")
  /\ ~getBit(rec.EventFlags, "XAPM_READ_FIRST")
  /\ st.mReadStarts[rec.TraceID \div 2] = <<>>

\* TraceID < 61: the memory-monitor markers of one record
EmuMemory(st, rec, timestamp, hostNsec) ==
  LET s == rec.TraceID \div 2
      flags == rec.EventFlags
      a == IF getBit(flags, "XAPM_WRITE_FIRST")
           THEN EmuStart(st, "mWriteStarts", "mHostWriteStarts", s, timestamp, hostNsec)
           ELSE st
      b == IF getBit(flags, "XAPM_WRITE_LAST")
           THEN EmuEnd(a, "mWriteStarts", "mHostWriteStarts", "Write", s, timestamp, hostNsec)
           ELSE a
      c == IF getBit(flags, "XAPM_READ_FIRST")
           THEN EmuStart(b, "mReadStarts", "mHostReadStarts", s, timestamp, hostNsec)
           ELSE b
      d == IF getBit(flags, "XAPM_READ_LAST")
           THEN EmuEnd(c, "mReadStarts", "mHostReadStarts", "Read", s, timestamp, hostNsec)
           ELSE c
  IN CASE EmuWriteDrop(st, rec) -> EmuDropEnd(a, "Write", s, timestamp, hostNsec)
       [] EmuReadDrop(st, rec) -> EmuDropEnd(c, "Read", s, timestamp, hostNsec)
       [] OTHER -> d

\* mEmuTraceMsecOneCycle after a completed kernel interval (the device times of
\* one monitor type never decrease, so the unsigned difference does not wrap
\* for the record sets below; a zero difference divides by zero)
EmuOneCycle(t) ==
  XDiv(t.End.n - t.Start.n, 2 * (t.EndTime - t.StartTime))

\* TraceID in 64..94: the compute-unit monitor of one record
EmuKernel(st, rec, timestamp, hostNsec) ==
  LET s == rec.TraceID - 64
      cuEvent == getBit(rec.EventFlags, "XSAM_TRACE_CU")
      started == BitAnd1(st.mAccelMonStartedEvents[s], XSAM_TRACE_CU_MASK) # 0
      t == DeviceTrace(s, "Kernel", st.mAccelMonCuTime[s], timestamp,
                       Fin(st.mAccelMonCuHostTime[s], 1), Fin(hostNsec, 1), 0)
      a == IF started
           THEN [st EXCEPT !.resultVector = PushBack(@, t),
                           !.mEmuTraceMsecOneCycle = EmuOneCycle(t)]
           ELSE [st EXCEPT !.mAccelMonCuHostTime[s] = hostNsec,
                           !.mAccelMonCuTime[s] = timestamp]
  IN IF cuEvent
     THEN [a EXCEPT !.mAccelMonStartedEvents[s] = Xor4(@, XSAM_TRACE_CU_MASK)]
     ELSE st

\* the device time of an emulation record: cumulative per monitor type
EmuTimestamp(rec, prev) ==
  rec.Timestamp + prev + (IF rec.Overflow = 1 THEN LOOP_ADD_TIME ELSE 0)

\* which decode path an emulation record takes
EmuRoute(rec, prevHost) ==
  CASE EmuSkipRule(rec, prevHost) -> "skip"
    [] rec.TraceID < 61 -> "memory"
    [] rec.TraceID >= 64 /\ rec.TraceID <= 94 -> "kernel"
    [] OTHER -> "skip"

\* one iteration of the record loop, emulation mode
EmuRecord(st, rec, ty) ==
  LET timestamp == EmuTimestamp(rec, st.mPrevTimestamp[ty])
      a == [st EXCEPT !.mPrevTimestamp[ty] = timestamp]
      hostNsec == getTimestampNsec(rec.HostTimestamp)
      b == [a EXCEPT !.prevHostTimestamp = rec.HostTimestamp]
      route == EmuRoute(rec, st.prevHostTimestamp)
  IN CASE EmuSkipRule(rec, st.prevHostTimestamp) -> a
       [] route = "memory" -> EmuMemory(b, rec, timestamp, hostNsec)
       [] route = "kernel" -> EmuKernel(b, rec, timestamp, hostNsec)
       [] OTHER -> b

\* ------------------------------------------------------------------------
\* Hardware mode: clock training and conversion
\* ------------------------------------------------------------------------
\* y = HostTimestamp + 1000 ("delay in sending from host")
TrainY(rec) == rec.HostTimestamp + HOST_SEND_DELAY
TrainX(rec) == rec.Timestamp

\* mTrainSlope[type] = (y2 - y1) / (x2 - x1)
TrainSlope(xa, ya, xb, yb) == XDiv(yb - ya, xb - xa)
\* mTrainOffset[type] = y2 - mTrainSlope[type] * x2
TrainOffset(slope, xb, yb) == XSub(Fin(yb, 1), XMulInt(slope, xb))

\* convertDeviceToHostTimestamp: m*x + (b - programStart)
convertDeviceToHostTimestamp(st, deviceTimestamp, ty) ==
  XAdd(XMulInt(st.mTrainSlope[ty], deviceTimestamp),
       XSub(st.mTrainOffset[ty], Fin(st.mTrainProgramStart[ty], 1)))

\* the second record of a batch: slope, offset, then trainDeviceHostTimestamps
\* (programStart is currentTime - currentOffset as read from the two clocks)
HwTrain(st, rec, ty, xa, ya, programStart) ==
  LET slope == TrainSlope(xa, ya, TrainX(rec), TrainY(rec))
  IN [st EXCEPT !.mTrainSlope[ty] = slope,
                !.mTrainOffset[ty] = TrainOffset(slope, TrainX(rec), TrainY(rec)),
                !.mTrainProgramStart[ty] = programStart]

\* device time of a hardware record
HwTimestamp(rec) ==
  rec.Timestamp + (IF rec.Overflow = 1 THEN LOOP_ADD_TIME_SPM ELSE 0)

\* (variant: the memory-monitor ids start at 0, as they do in emulation mode)
HwRoute_FromZero(rec, idx) ==
  CASE idx = 0 -> "train"
    [] rec.TraceID >= 64 /\ rec.TraceID <= 544 -> "sam"
    [] rec.TraceID >= 0 /\ rec.TraceID <= 61 -> "spm"
    [] OTHER -> "skip"
\* (variant: the first two records of a batch are calibration points only)
HwRoute_TwoTraining(rec, idx) ==
  CASE idx <= 1 -> "train"
    [] rec.TraceID >= 64 /\ rec.TraceID <= 544 -> "sam"
    [] rec.TraceID >= 2 /\ rec.TraceID <= 61 -> "spm"
    [] OTHER -> "skip"
\* which decode path a hardware record at position idx takes
HwRoute(rec, idx) ==
  CASE idx = 0 -> "train"
    [] rec.TraceID >= 64 /\ rec.TraceID <= 544 -> "sam"
    [] rec.TraceID >= 2 /\ rec.TraceID <= 61 -> "spm"
    [] OTHER -> "skip"

HwSlotID(rec) ==
  IF rec.TraceID >= 64 /\ rec.TraceID <= 544
  THEN (rec.TraceID - 64) \div 16
  ELSE rec.TraceID \div 2

\* ------------------------------------------------------------------------
\* Hardware mode: compute-unit monitor (SAM) record
\* ------------------------------------------------------------------------
\* one category of a SAM record: emit the completed interval or store the start
SamCategory(st, s, mask, kind, timeField, front, timestamp, ty) ==
  LET startTime == st[timeField][s]
      t == DeviceTrace(s, kind, startTime, timestamp,
                       convertDeviceToHostTimestamp(st, startTime, ty),
                       convertDeviceToHostTimestamp(st, timestamp, ty), 0)
  IN IF BitAnd1(st.mAccelMonStartedEvents[s], mask) # 0
     THEN [st EXCEPT !.resultVector =
                        IF front THEN InsertFront(@, t) ELSE PushBack(@, t)]
     ELSE [st EXCEPT ![timeField][s] = timestamp]

\* (variant: the record's bits are set, never cleared)
SamToggle_SetOnly(started, id) ==
  LET x(m) == IF BitAnd1(started, m) # 0 \/ BitAnd1(id, m) # 0 THEN m ELSE 0
  IN x(1) + x(2) + x(4) + x(8)
\* mAccelMonStartedEvents[s] ^= (trace.TraceID & 0xf)
SamToggle(started, id) == Xor4(started, Low4(id))

\* (variant: the compute unit's last activity is not recorded)
HwSam_StaleLastTranx(st, rec, s, timestamp, ty) ==
  LET id == rec.TraceID
      a == IF BitAnd1(id, XSAM_TRACE_CU_MASK) # 0
           THEN SamCategory(st, s, XSAM_TRACE_CU_MASK, "Kernel",
                            "mAccelMonCuTime", TRUE, timestamp, ty)
           ELSE st
      b == IF BitAnd1(id, XSAM_TRACE_STALL_INT_MASK) # 0
           THEN SamCategory(a, s, XSAM_TRACE_STALL_INT_MASK,
                            "Intra-Kernel Dataflow Stall",
                            "mAccelMonStallIntTime", FALSE, timestamp, ty)
           ELSE a
      c == IF BitAnd1(id, XSAM_TRACE_STALL_STR_MASK) # 0
           THEN SamCategory(b, s, XSAM_TRACE_STALL_STR_MASK,
                            "Inter-Kernel Pipe Stall",
                            "mAccelMonStallStrTime", FALSE, timestamp, ty)
           ELSE b
      d == IF BitAnd1(id, XSAM_TRACE_STALL_EXT_MASK) # 0
           THEN SamCategory(c, s, XSAM_TRACE_STALL_EXT_MASK,
                            "External Memory Stall",
                            "mAccelMonStallExtTime", FALSE, timestamp, ty)
           ELSE c
  IN [d EXCEPT !.mAccelMonStartedEvents[s] = SamToggle(@, id)]

\* TraceID in 64..544: the compute-unit monitor of one record
HwSam(st, rec, s, timestamp, ty) ==
  LET id == rec.TraceID
      a == IF BitAnd1(id, XSAM_TRACE_CU_MASK) # 0
           THEN SamCategory(st, s, XSAM_TRACE_CU_MASK, "Kernel",
                            "mAccelMonCuTime", TRUE, timestamp, ty)
           ELSE st
      b == IF BitAnd1(id, XSAM_TRACE_STALL_INT_MASK) # 0
           THEN SamCategory(a, s, XSAM_TRACE_STALL_INT_MASK,
                            "Intra-Kernel Dataflow Stall",
                            "mAccelMonStallIntTime", FALSE, timestamp, ty)
           ELSE a
      c == IF BitAnd1(id, XSAM_TRACE_STALL_STR_MASK) # 0
           THEN SamCategory(b, s, XSAM_TRACE_STALL_STR_MASK,
                            "Inter-Kernel Pipe Stall",
                            "mAccelMonStallStrTime", FALSE, timestamp, ty)
           ELSE b
      d == IF BitAnd1(id, XSAM_TRACE_STALL_EXT_MASK) # 0
           THEN SamCategory(c, s, XSAM_TRACE_STALL_EXT_MASK,
                            "External Memory Stall",
                            "mAccelMonStallExtTime", FALSE, timestamp, ty)
           ELSE c
  IN [d EXCEPT !.mAccelMonStartedEvents[s] = SamToggle(@, id),
               !.mAccelMonLastTranx[s] = timestamp]

\* ------------------------------------------------------------------------
\* Hardware mode: memory monitor (SPM) record
\* ------------------------------------------------------------------------
\* TRUE when the end event takes the current time as its start
\* (variant: only the empty queue gives a single point)
SpmSinglePoint_EmptyOnly(rec, q) == q = <<>>
SpmSinglePoint(rec, q) == rec.Reserved = 1 \/ q = <<>>

\* end event: start time, transaction, last activity
SpmEnd(st, q, kind, rec, s, timestamp, ty) ==
  LET single == SpmSinglePoint(rec, st[q][s])
      startTime == IF single THEN timestamp ELSE QueueFront(st[q][s])
      t == DeviceTrace(s, kind, startTime, timestamp,
                       convertDeviceToHostTimestamp(st, startTime, ty),
                       convertDeviceToHostTimestamp(st, timestamp, ty),
                       BurstLength(startTime, timestamp))
  IN [st EXCEPT ![q][s] = IF single THEN @ ELSE QueuePop(@),
                !.resultVector = PushBack(@, t),
                !.mPerfMonLastTranx[s] = timestamp]

HwSpmDir(st, q, kind, rec, s, timestamp, ty) ==
  CASE rec.EventType = "XCL_PERF_MON_START_EVENT" ->
         [st EXCEPT ![q][s] = Append(@, timestamp)]
    [] rec.EventType = "XCL_PERF_MON_END_EVENT" ->
         SpmEnd(st, q, kind, rec, s, timestamp, ty)
    [] OTHER -> st

HwSpm(st, rec, s, timestamp, ty) ==
  IF IS_READ(rec.TraceID)
  THEN HwSpmDir(st, "mReadStarts", "Read", rec, s, timestamp, ty)
  ELSE IF IS_WRITE(rec.TraceID)
  THEN HwSpmDir(st, "mWriteStarts", "Write", rec, s, timestamp, ty)
  ELSE st

\* one iteration of the record loop, hardware mode, for idx >= 1
HwRecord(st, rec, idx, ty, xa, ya, programStart) ==
  LET a == IF idx = 1 THEN HwTrain(st, rec, ty, xa, ya, programStart) ELSE st
      timestamp == HwTimestamp(rec)
      route == HwRoute(rec, idx)
      s == HwSlotID(rec)
  IN CASE route = "sam" -> HwSam(a, rec, s, timestamp, ty)
       [] route = "spm" -> HwSpm(a, rec, s, timestamp, ty)
       [] OTHER -> a

\* ------------------------------------------------------------------------
\* Post-pass: approximate CU ends (hardware), clear started events (both)
\* ------------------------------------------------------------------------
Max2(a, b) == IF a < b THEN b ELSE a

RECURSIVE LastPortTranx(_, _, _)
\* the scan over memory slots j = from .. last slot for compute unit c
LastPortTranx(st, c, j) ==
  IF j \notin MemSlots THEN 0
  ELSE LET rest == LastPortTranx(st, c, j + 1)
           mine == IF AccelSlotName(c) = CuNamePrefix(MemorySlotName(j))
                   THEN st.mPerfMonLastTranx[j] ELSE 0
       IN Max2(mine, rest)

\* (variant: only the compute unit's own last activity is looked at)
ApproxEndTime_OwnOnly(st, c) == st.mAccelMonLastTranx[c]
\* lastTimeStamp of compute unit c
ApproxEndTime(st, c) ==
  Max2(LastPortTranx(st, c, 0), st.mAccelMonLastTranx[c])

\* compute unit c of the post-pass
ApproxCuEnd(st, c, ty) ==
  LET lastTimeStamp == ApproxEndTime(st, c)
      startTime == st.mAccelMonCuTime[c]
      t == DeviceTrace(c, "Kernel", startTime, lastTimeStamp,
                       convertDeviceToHostTimestamp(st, startTime, ty),
                       convertDeviceToHostTimestamp(st, lastTimeStamp, ty), 0)
  IN IF BitAnd1(st.mAccelMonStartedEvents[c], XSAM_TRACE_CU_MASK) # 0
        /\ lastTimeStamp # 0
     THEN [st EXCEPT !.resultVector = InsertFront(@, t)]
     ELSE st

RECURSIVE ApproxCuEnds(_, _, _)
\* for (i = c; i < XSAM_MAX_NUMBER_SLOTS; i++)
ApproxCuEnds(st, c, ty) ==
  IF c \notin CuSlots THEN st
  ELSE ApproxCuEnds(ApproxCuEnd(st, c, ty), c + 1, ty)

\* (variant: the started events are kept for the next call)
ClearStarted_Kept(st) == st
\* std::fill_n(mAccelMonStartedEvents, XSAM_MAX_NUMBER_SLOTS, 0)
ClearStarted(st) ==
  [st EXCEPT !.mAccelMonStartedEvents = [c \in CuSlots |-> 0]]

\* (variant: the start queues are emptied with the started events)
PostPass_ClearQueues(st, hwEmu, ty) ==
  [ClearStarted(IF hwEmu THEN st ELSE ApproxCuEnds(st, 0, ty))
     EXCEPT !.mReadStarts = [s \in MemSlots |-> <<>>],
            !.mHostReadStarts = [s \in MemSlots |-> <<>>],
            !.mWriteStarts = [s \in MemSlots |-> <<>>],
            !.mHostWriteStarts = [s \in MemSlots |-> <<>>]]
PostPass(st, hwEmu, ty) ==
  ClearStarted(IF hwEmu THEN st ELSE ApproxCuEnds(st, 0, ty))

\* ------------------------------------------------------------------------
\* Inputs: the trace records a batch can hold
\* ------------------------------------------------------------------------
\* xclTraceResults; a field the decode path never reads is left at 0 / {}
Rec(ts, host, id, et, rsv, fl) ==
  [ Timestamp |-> ts, HostTimestamp |-> host, Overflow |-> 0, TraceID |-> id,
    EventType |-> et, Reserved |-> rsv, EventFlags |-> fl ]
NoTrace == Rec(0, 0, 0, "none", 0, {})
START == "XCL_PERF_MON_START_EVENT"
END == "XCL_PERF_MON_END_EVENT"

\* hardware memory-monitor events of trace id `id`
HwSpmShapes(id) ==
  {Rec(t, 0, id, START, 0, {}) : t \in {1, 2}}
    \cup {Rec(t, 0, id, END, 0, {}) : t \in {1, 3}}
    \cup {Rec(3, 0, id, END, 1, {})}

\* hardware compute-unit events of slot c with the given category bits
HwSamShapes(c, bitsets) ==
  {Rec(t, 0, 64 + 16 * c + b, "none", 0, {}) : t \in {1, 2}, b \in bitsets}

\* the record sets by workload (what the device's monitors were set up to trace)
HwShapes(w) ==
  CASE w = "hw_read" -> HwSpmShapes(2)
    [] w = "hw_write" -> HwSpmShapes(3) \cup {Rec(2, 0, 1, START, 0, {})}
    [] w = "hw_kernel_stall" -> HwSamShapes(0, {1, 2, 3})
    [] w = "hw_stalls" -> HwSamShapes(1, {4, 8, 15})
    [] w = "hw_mixed" ->
         { Rec(1, 0, 65, "none", 0, {}), Rec(2, 0, 65, "none", 0, {}),
           Rec(0, 0, 65, "none", 0, {}), Rec(2, 0, 66, "none", 0, {}),
           Rec(3, 0, 2, END, 0, {}),
           [Rec(3, 0, 5, END, 0, {}) EXCEPT !.Overflow = 1],
           [Rec(1, 0, 62, END, 0, {}) EXCEPT !.Overflow = 1] }
    [] w = "hw_clock" ->
         { Rec(1, 0, 65, "none", 0, {}), Rec(3, 0, 2, END, 0, {}),
           Rec(2, 0, 2, END, 0, {}) }
    [] OTHER -> {}

\* first record of a hardware batch: only the calibration point is read; two
\* workloads also have an event record in that place
HwFirst(w) ==
  {Rec(1, 1, 0, "none", 0, {})}
    \cup (IF w = "hw_read" THEN {Rec(1, 1, 2, END, 0, {})} ELSE {})
    \cup (IF w = "hw_kernel_stall" THEN {Rec(1, 1, 65, "none", 0, {})} ELSE {})
\* second record: calibration point and event; the host clock follows the
\* device clock one to one, except in the clock workload
HwSecond(w) ==
  {[r EXCEPT !.HostTimestamp = r.Timestamp] : r \in HwShapes(w)}
    \cup (IF w = "hw_clock"
          THEN {[r EXCEPT !.HostTimestamp = 0] : r \in HwShapes(w)}
          ELSE {})

HwRecords(w, idx) ==
  CASE idx = 0 -> HwFirst(w)
    [] idx = 1 -> HwSecond(w)
    [] OTHER -> HwShapes(w)

\* emulation memory-monitor events of trace id `id`
EmuMemShapes(id, first, last) ==
  { Rec(1, 5, id, "none", 0, {first}), Rec(2, 6, id, "none", 0, {first}),
    Rec(2, 5, id, "none", 0, {last}), Rec(1, 7, id, "none", 0, {last}),
    Rec(1, 6, id, "none", 0, {first, last}) }

EmuRecords(w) ==
  CASE w = "emu_write" -> EmuMemShapes(2, "XAPM_WRITE_FIRST", "XAPM_WRITE_LAST")
    [] w = "emu_read" -> EmuMemShapes(3, "XAPM_READ_FIRST", "XAPM_READ_LAST")
    [] w = "emu_mixed" ->
         { Rec(1, 5, 64, "none", 0, {"XSAM_TRACE_CU"}),
           Rec(2, 7, 64, "none", 0, {"XSAM_TRACE_CU"}),
           Rec(0, 4, 64, "none", 0, {"XSAM_TRACE_CU"}),
           Rec(2, 5, 2, "none", 0, {"XAPM_WRITE_FIRST", "XAPM_WRITE_LAST"}),
           Rec(1, 6, 2, "none", 0, {"XAPM_WRITE_LAST", "XAPM_READ_FIRST"}),
           Rec(1, 5, 62, "none", 0, {"XAPM_READ_FIRST"}) }
    [] w = "emu_types" ->
         { Rec(1, 5, 64, "none", 0, {"XSAM_TRACE_CU"}),
           Rec(2, 6, 1, "none", 0, {"XAPM_READ_FIRST"}),
           [Rec(1, 7, 0, "none", 0, {"XAPM_READ_LAST"}) EXCEPT !.Overflow = 1] }
    [] OTHER -> {}

\* monitor types the engine is called with, and the program-start values the
\* clocks can give, by workload
TypesOf(w) == IF w \in {"hw_clock", "emu_types"} THEN Types ELSE {0}
ProgramStartsOf(w) == IF w = "hw_clock" THEN ProgramStarts ELSE {0}

HwWorkloads ==
  {"hw_read", "hw_write", "hw_kernel_stall", "hw_stalls", "hw_mixed", "hw_clock"}
EmuWorkloads == {"emu_write", "emu_read", "emu_mixed", "emu_types"}

\* ------------------------------------------------------------------------
\* History variables (not program state)
\*   op            the kind of the last step
\*   lastBatch     length of the last batch that passed the entry check
\*   emptyAtEntry  the output sequence was empty when the current call began
\*   obs           facts of the state the last step started from
\*   fifo          per memory slot and direction, the start and end events
\*                 decoded since a start event last found the queue empty
\*   clockReads    per monitor type, the reads of the host clocks
\*   deviceOrder   whether the decoded hardware records came in the order of
\*                 their device times
\* ------------------------------------------------------------------------
Dirs == {"Read", "Write"}
NoFifo == [starts |-> <<>>, ends |-> <<>>, tx |-> <<>>, ok |-> TRUE]

\* what the step starts from, for record `rec` (slot indices clipped to the
\* modelled slots)
Observe(rec) ==
  LET m == IF rec.TraceID \div 2 \in MemSlots THEN rec.TraceID \div 2 ELSE 0
  IN [ wEmpty |-> mWriteStarts[m] = <<>>, rEmpty |-> mReadStarts[m] = <<>>,
       started |-> mAccelMonStartedEvents, rvLen |-> Len(resultVector) ]

\* the memory start/end events a record carries, in decode order
MemEvents(rec, hw, idx, prevHost, wDrop) ==
  IF hw
  THEN IF HwRoute(rec, idx) # "spm" THEN <<>>
       ELSE LET d == IF IS_READ(rec.TraceID) THEN "Read" ELSE "Write"
            IN CASE rec.EventType = START -> <<[e |-> "S", dir |-> d, rsv |-> 0]>>
                 [] rec.EventType = END -> <<[e |-> "E", dir |-> d, rsv |-> rec.Reserved]>>
                 [] OTHER -> <<>>
  ELSE IF EmuRoute(rec, prevHost) # "memory" THEN <<>>
       ELSE LET ev(marker, e, d) ==
                  IF getBit(rec.EventFlags, marker)
                  THEN <<[e |-> e, dir |-> d, rsv |-> 0]>> ELSE <<>>
                w == ev("XAPM_WRITE_FIRST", "S", "Write")
                       \o ev("XAPM_WRITE_LAST", "E", "Write")
                r == ev("XAPM_READ_FIRST", "S", "Read")
                       \o ev("XAPM_READ_LAST", "E", "Read")
            IN IF wDrop THEN w ELSE w \o r

\* one event applied to a tracker f; qlen is the queue length before it, t and
\* h the device and host time, out the records of this slot and direction the
\* step appended to the output
FifoEvent(f, ev, qlen, t, h, out) ==
  IF ev.e = "S"
  THEN IF qlen = 0
       THEN [starts |-> <<[t |-> t, h |-> h]>>, ends |-> <<>>, tx |-> <<>>,
             ok |-> TRUE]
       ELSE [f EXCEPT !.starts = Append(@, [t |-> t, h |-> h]),
                      !.ok = @ /\ f.ends = <<>>]
  ELSE [f EXCEPT !.ends = Append(@, [t |-> t, h |-> h, rsv |-> ev.rsv,
                                      out |-> out # <<>>]),
                 !.tx = @ \o out]

RECURSIVE FifoEvents(_, _, _, _, _, _, _)
FifoEvents(f, evs, d, qlen, t, h, out) ==
  IF evs = <<>> THEN f
  ELSE LET ev == Head(evs)
           mine == ev.dir = d
           q2 == CASE ~mine -> qlen
                   [] ev.e = "S" -> qlen + 1
                   [] ev.rsv = 0 /\ qlen > 0 -> qlen - 1
                   [] OTHER -> qlen
       IN FifoEvents(IF mine THEN FifoEvent(f, ev, qlen, t, h, out) ELSE f,
                     Tail(evs), d, q2, t, h, out)

\* the records appended at the back of the output by a step
Appended(before, after) == SubSeq(after, Len(before) + 1, Len(after))

\* fifo after a record step from the current state to state st2
FifoAfter(rec, hw, idx, st2, t, h) ==
  LET s == rec.TraceID \div 2
      evs == MemEvents(rec, hw, idx, prevHostTimestamp,
                       hw = FALSE /\ EmuWriteDrop(Cur, rec))
      new == Appended(resultVector, st2.resultVector)
      out(d) == SelectSeq(new, LAMBDA x : x.SlotNum = s /\ x.Type = d)
      q(d) == IF d = "Read" THEN Len(mReadStarts[s]) ELSE Len(mWriteStarts[s])
  IN IF evs = <<>> \/ s \notin MemSlots THEN fifo
     ELSE [fifo EXCEPT ![s] =
            [d \in Dirs |-> FifoEvents(fifo[s][d], evs, d, q(d), t, h, out(d))]]

\* the reads of the host clocks made by trainDeviceHostTimestamps for monitor
\* type ty: how many there were (counted up to MaxClockReads) and the program
\* start the last one gave
NoClockReads == [n |-> 0, at |-> 0]
ClockRead(c, ty, programStart) ==
  [c EXCEPT ![ty] = [n |-> IF c[ty].n < MaxClockReads THEN c[ty].n + 1
                           ELSE MaxClockReads,
                     at |-> programStart]]

\* the order of the device times of the records decoded in hardware mode:
\* the device time of the last one while they have come in non-decreasing
\* order, and no more than the fact once one came before its predecessor
InOrder(t) == [ok |-> TRUE, last |-> t]
OutOfOrder == [ok |-> FALSE, last |-> 0]
OrderAfter(o, timestamp) ==
  IF o.ok /\ o.last <= timestamp THEN InOrder(timestamp) ELSE OutOfOrder

\* counter values at which the model starts: a new engine, and an engine that
\* has already taken its share of batches (batches of one record in hardware
\* mode change nothing but the counter).  The counter meets the decoding only
\* in the entry check, so the second start is taken with one workload of each
\* mode.
NearCapWorkloads == {"hw_read", "emu_write"}
InitCounts(w) ==
  IF w \in NearCapWorkloads THEN {0, mMaxTraceEvents - NearCap} ELSE {0}

\* ------------------------------------------------------------------------
\* Initial state: after the constructor.  The constructor sets the counter,
\* the one-cycle time, slope, offset and previous timestamps; the queues are
\* default-constructed empty; the compute-unit and last-activity arrays start
\* at zero (each is written by a call before that call reads it, the started
\* events excepted, which every accepted call leaves at zero).
\* ------------------------------------------------------------------------
Init ==
  /\ isHwEmu \in BOOLEAN
  /\ workload \in (IF isHwEmu THEN EmuWorkloads ELSE HwWorkloads)
  /\ mNumTraceEvents \in InitCounts(workload)
  /\ mEmuTraceMsecOneCycle = Fin(0, 1)
  /\ mTrainSlope = [t \in Types |-> Fin(TRAIN_SLOPE_NUM, TRAIN_CLOCK_MHZ)]
  /\ mTrainOffset = [t \in Types |-> Fin(0, 1)]
  /\ mTrainProgramStart = [t \in Types |-> 0]
  /\ mPrevTimestamp = [t \in Types |-> 0]
  /\ mWriteStarts = [s \in MemSlots |-> <<>>]
  /\ mHostWriteStarts = [s \in MemSlots |-> <<>>]
  /\ mReadStarts = [s \in MemSlots |-> <<>>]
  /\ mHostReadStarts = [s \in MemSlots |-> <<>>]
  /\ mAccelMonStartedEvents = [c \in CuSlots |-> 0]
  /\ mAccelMonCuTime = [c \in CuSlots |-> 0]
  /\ mAccelMonCuHostTime = [c \in CuSlots |-> 0]
  /\ mAccelMonStallIntTime = [c \in CuSlots |-> 0]
  /\ mAccelMonStallStrTime = [c \in CuSlots |-> 0]
  /\ mAccelMonStallExtTime = [c \in CuSlots |-> 0]
  /\ mAccelMonLastTranx = [c \in CuSlots |-> 0]
  /\ mPerfMonLastTranx = [s \in MemSlots |-> 0]
  /\ resultVector = <<>>
  /\ pc = "idle"
  /\ type = 0
  /\ mLength = 0
  /\ i = 0
  /\ prevHostTimestamp = PREV_HOST_NONE
  /\ x1 = 0
  /\ y1 = 0
  /\ trace = NoTrace
  /\ op = "new"
  /\ lastBatch = 0
  /\ emptyAtEntry = TRUE
  /\ obs = Observe(NoTrace)
  /\ fifo = [s \in MemSlots |-> [d \in Dirs |-> NoFifo]]
  /\ clockReads = [t \in Types |-> NoClockReads]
  /\ deviceOrder = InOrder(0)

\* ------------------------------------------------------------------------
\* Actions
\* ------------------------------------------------------------------------
\* records handed in since the model's initial state
Handed ==
  IF mNumTraceEvents < mMaxTraceEvents - NearCap
  THEN mNumTraceEvents
  ELSE mNumTraceEvents - (mMaxTraceEvents - NearCap)

\* the model stops handing in batches once MaxEvents records were decoded;
\* the calibration record a hardware batch starts with is not counted
MayCall(len) ==
  \/ EntryReturns(mNumTraceEvents, len)
  \/ Handed + len <= MaxEvents + (IF isHwEmu THEN 0 ELSE 1)

\* logTrace is called: the entry check, the counter, the locals
LogTraceEntry ==
  /\ pc = "idle"
  /\ \E ty \in TypesOf(workload), len \in 0 .. MaxLen :
       /\ MayCall(len)
       /\ type' = ty
       /\ mLength' = len
       /\ IF EntryReturns(mNumTraceEvents, len)
          THEN /\ op' = "return"
               /\ UNCHANGED <<members, resultVector, pc, i, prevHostTimestamp,
                              x1, y1, trace, lastBatch, emptyAtEntry>>
          ELSE /\ op' = "entry"
               /\ mNumTraceEvents' = mNumTraceEvents + len
               /\ lastBatch' = len
               /\ emptyAtEntry' = (resultVector = <<>>)
               /\ pc' = "loop"
               /\ i' = 0
               /\ prevHostTimestamp' = PREV_HOST_NONE
               /\ x1' = 0
               /\ y1' = 0
               /\ trace' = NoTrace
               /\ UNCHANGED <<mEmuTraceMsecOneCycle, mTrainSlope, mTrainOffset,
                    mTrainProgramStart, mPrevTimestamp, mWriteStarts,
                    mHostWriteStarts, mReadStarts, mHostReadStarts,
                    mAccelMonStartedEvents, mAccelMonCuTime, mAccelMonCuHostTime,
                    mAccelMonStallIntTime, mAccelMonStallStrTime,
                    mAccelMonStallExtTime, mAccelMonLastTranx, mPerfMonLastTranx,
                    resultVector>>
  /\ obs' = Observe(NoTrace)
  /\ UNCHANGED <<env, fifo, clockReads, deviceOrder>>

\* the loop's step to the next record, or out of the loop
Advance ==
  /\ i' = i + 1
  /\ pc' = IF i + 1 < mLength THEN "loop" ELSE "post"

\* one record of the loop, emulation mode
ParseEmu ==
  /\ pc = "loop"
  /\ isHwEmu
  /\ \E r \in EmuRecords(workload) :
       LET st2 == EmuRecord(Cur, r, type)
       IN /\ trace' = r
          /\ Commit(st2)
          /\ obs' = Observe(r)
          /\ fifo' = FifoAfter(r, FALSE, i, st2, st2.mPrevTimestamp[type],
                               getTimestampNsec(r.HostTimestamp))
  /\ Advance
  /\ op' = "record"
  /\ UNCHANGED <<mNumTraceEvents, env, type, mLength, x1, y1, lastBatch,
                 emptyAtEntry, clockReads, deviceOrder>>

\* one record of the loop, hardware mode
ParseHw ==
  /\ pc = "loop"
  /\ ~isHwEmu
  /\ \E r \in HwRecords(workload, i) :
       /\ trace' = r
       /\ obs' = Observe(r)
       /\ IF i = 0
          THEN /\ x1' = TrainX(r)
               /\ y1' = TrainY(r)
               /\ Commit(Cur)
               /\ UNCHANGED <<fifo, clockReads, deviceOrder>>
          ELSE /\ \E p \in (IF i = 1 THEN ProgramStartsOf(workload) ELSE {0}) :
                    LET st2 == HwRecord(Cur, r, i, type, x1, y1, p)
                    IN /\ Commit(st2)
                       /\ fifo' = FifoAfter(r, TRUE, i, st2, HwTimestamp(r), 0)
                       /\ clockReads' = IF i = 1
                                        THEN ClockRead(clockReads, type, p)
                                        ELSE clockReads
               /\ deviceOrder' = IF HwRoute(r, i) \in {"sam", "spm"}
                                 THEN OrderAfter(deviceOrder, HwTimestamp(r))
                                 ELSE deviceOrder
               /\ UNCHANGED <<x1, y1>>
  /\ Advance
  /\ op' = "record"
  /\ UNCHANGED <<mNumTraceEvents, env, type, mLength, lastBatch, emptyAtEntry>>

\* after the loop: approximate CU ends, clear the started events, return (the
\* locals of the call are gone: they are put back to their values at entry)
LogTracePost ==
  /\ pc = "post"
  /\ LET st2 == PostPass(Cur, isHwEmu, type)
     IN Commit([st2 EXCEPT !.prevHostTimestamp = PREV_HOST_NONE])
  /\ pc' = "idle"
  /\ i' = 0
  /\ x1' = 0
  /\ y1' = 0
  /\ trace' = NoTrace
  /\ op' = "post"
  /\ obs' = Observe(NoTrace)
  /\ UNCHANGED <<mNumTraceEvents, env, type, mLength, lastBatch, emptyAtEntry,
                 fifo, clockReads, deviceOrder>>

\* the caller takes the results and hands in an empty vector next time
TakeResults ==
  /\ pc = "idle"
  /\ resultVector # <<>>
  /\ resultVector' = <<>>
  /\ op' = "take"
  /\ UNCHANGED <<members, env, frame, lastBatch, emptyAtEntry, obs, fifo,
                 clockReads, deviceOrder>>

Next ==
  \/ LogTraceEntry
  \/ ParseEmu
  \/ ParseHw
  \/ LogTracePost
  \/ TakeResults

Spec == Init /\ [][Next]_vars

\* ------------------------------------------------------------------------
\* Claims
\* ------------------------------------------------------------------------
programState == <<members, resultVector>>

\* C1 (as stated): the processed-event counter is never greater than the cap.
C1_CounterNeverAboveCap == mNumTraceEvents <= mMaxTraceEvents

\* C1 (amended): the cap is tested once, at entry, so the counter is below the
\* cap whenever a batch is let in and never exceeds the cap by as much as the
\* length of the last batch that was let in.
C1_CounterBelowCapPlusBatch ==
  mNumTraceEvents <= mMaxTraceEvents - 1 + lastBatch

\* a batch of more than one record took the counter past the cap
C1_Witness ==
  /\ op = "post"
  /\ lastBatch > 1
  /\ mNumTraceEvents > mMaxTraceEvents
  /\ mNumTraceEvents = mMaxTraceEvents - 1 + lastBatch

\* C2: a logTrace call with an empty batch, or made with the counter at or
\* past the cap, changes nothing: counter, start queues, started masks, stored
\* start times, last-activity times, clock model and output are as before.
C2_RejectedCallIsNoOp ==
  [][ ( /\ pc = "idle"
        /\ op' \in {"entry", "return"}
        /\ (mLength' = 0 \/ mNumTraceEvents >= mMaxTraceEvents) )
      => UNCHANGED programState ]_vars

\* a call with a non-empty batch has returned at the cap, with decoder state
\* and output present to be kept
C2_Witness ==
  /\ op = "return"
  /\ mLength > 0
  /\ mNumTraceEvents >= mMaxTraceEvents
  /\ resultVector # <<>>
  /\ \E s \in MemSlots : mReadStarts[s] # <<>>

\* ------------------------------------------------------------------------
\* C3: FIFO pairing
\* ------------------------------------------------------------------------
\* tracker f holds n >= 1 start events followed by n end events, the first
\* start having found the queue empty
Paired(f) ==
  /\ f.ok
  /\ f.starts # <<>>
  /\ Len(f.starts) = Len(f.ends)

\* the end events of f that emitted a transaction, and the place of the k-th
\* end's transaction among those emitted
EmittedEnds(f) == {k \in 1 .. Len(f.ends) : f.ends[k].out}
PlaceOf(f, k) == Cardinality({m \in EmittedEnds(f) : m <= k})

KernelsFirst(v) ==
  \A a, b \in 1 .. Len(v) :
    (v[a].Type = "Kernel" /\ v[b].Type # "Kernel") => a < b

\* C4 (as stated): in both decode modes, in a call that started with an empty
\* output sequence every Kernel record is earlier in the output than every
\* stall and every memory record.
C4_KernelsFirstBothModes == emptyAtEntry => KernelsFirst(resultVector)

\* C4 (amended): in hardware mode, in a call that started with an empty output
\* sequence every Kernel record is earlier in the output than every stall and
\* every memory record (emulation mode appends Kernel records at the back like
\* every other record).
C4_KernelsFirstHardware ==
  (emptyAtEntry /\ ~isHwEmu) => KernelsFirst(resultVector)

\* a hardware call has returned a Kernel record ahead of a record of another
\* kind although the Kernel interval ended after that record's
C4_Witness ==
  /\ ~isHwEmu
  /\ op = "post"
  /\ emptyAtEntry
  /\ Len(resultVector) >= 2
  /\ resultVector[1].Type = "Kernel"
  /\ resultVector[2].Type # "Kernel"
  /\ resultVector[1].EndTime > resultVector[2].EndTime

\* ------------------------------------------------------------------------
\* C5: host end >= host start
\* ------------------------------------------------------------------------
EndNotBeforeStart(t) == XGe(t.End, t.Start)

\* C5 (as stated): after any call, in either mode, every record of the output
\* has host end >= host start.
C5_EndNotBeforeStartAllRecords ==
  pc = "idle" =>
    \A k \in 1 .. Len(resultVector) : EndNotBeforeStart(resultVector[k])

\* C5 (amended): in emulation mode every Read and Write record of the output
\* has host end >= host start, a candidate with end < start being discarded;
\* Kernel records of emulation mode and all records of hardware mode are
\* emitted without the test.
C5_EmuMemoryEndNotBeforeStart ==
  isHwEmu =>
    \A k \in 1 .. Len(resultVector) :
      resultVector[k].Type \in Dirs => EndNotBeforeStart(resultVector[k])

\* an emulation end marker was matched with a start of later host time and
\* nothing was emitted for it
C5_Witness ==
  /\ isHwEmu
  /\ \E s \in MemSlots, d \in Dirs :
       LET f == fifo[s][d]
       IN /\ Paired(f)
          /\ f.ends[1].h < f.starts[1].h
          /\ ~f.ends[1].out
          /\ f.tx = <<>>

\* ------------------------------------------------------------------------
\* C6, C7: a memory end event that finds the start queue empty
\* ------------------------------------------------------------------------
\* the loop goes on with the next record, or leaves the loop after the last
LoopContinues ==
  /\ i' = i + 1
  /\ pc' = IF i + 1 < mLength THEN "loop" ELSE "post"

\* the start queue of record rec's slot and direction, hardware mode
HwQueueOf(rec, reads, writes) ==
  IF IS_READ(rec.TraceID) THEN reads[rec.TraceID \div 2]
  ELSE writes[rec.TraceID \div 2]

LoneEnd(rec, first, last) ==
  /\ rec.TraceID < 61
  /\ ~(rec.HostTimestamp = prevHostTimestamp /\ rec.Timestamp = 1)
  /\ last \in rec.EventFlags
  /\ first \notin rec.EventFlags

NoneOfKind(v, kind) == \A k \in 1 .. Len(v) : v[k].Type # kind

\* C7: in emulation mode a write-last (read-last) marker decoded while the
\* write (read) start queue of its slot is empty emits no Write (Read) record,
\* the queue stays empty, and the loop goes on with the next record.
C7_EmuUnmatchedEndDropped ==
  [][ (pc = "loop" /\ isHwEmu) =>
        LET s == trace'.TraceID \div 2
            new == SubSeq(resultVector', Len(resultVector) + 1, Len(resultVector'))
        IN /\ ( /\ LoneEnd(trace', "XAPM_WRITE_FIRST", "XAPM_WRITE_LAST")
                /\ mWriteStarts[s] = <<>> )
              => /\ SubSeq(resultVector', 1, Len(resultVector)) = resultVector
                 /\ NoneOfKind(new, "Write")
                 /\ mWriteStarts'[s] = <<>>
                 /\ LoopContinues
           /\ ( /\ LoneEnd(trace', "XAPM_READ_FIRST", "XAPM_READ_LAST")
                /\ mReadStarts[s] = <<>> )
              => /\ SubSeq(resultVector', 1, Len(resultVector)) = resultVector
                 /\ NoneOfKind(new, "Read")
                 /\ mReadStarts'[s] = <<>>
                 /\ LoopContinues ]_vars

\* an emulation write-last marker has just found the write queue of its slot
\* empty: nothing was emitted, the queue is empty, and the batch has records
\* still to come
C7_Witness ==
  /\ isHwEmu
  /\ op = "record"
  /\ pc = "loop"
  /\ "XAPM_WRITE_LAST" \in trace.EventFlags
  /\ trace.TraceID = 2
  /\ obs.wEmpty
  /\ Len(resultVector) = obs.rvLen
  /\ mWriteStarts[1] = <<>>
  /\ LET f == fifo[1]["Write"]
     IN /\ f.ends # <<>>
        /\ f.ends[Len(f.ends)].t = mPrevTimestamp[type]
        /\ ~f.ends[Len(f.ends)].out

\* ------------------------------------------------------------------------
\* C8: toggle semantics of the compute-unit tracker
\* ------------------------------------------------------------------------
IsStarted(word, mask) == (word \div mask) % 2 = 1

\* records of v of the given kind and slot; and those with the given times
CountKind(v, kind, s) ==
  Cardinality({k \in 1 .. Len(v) : v[k].Type = kind /\ v[k].SlotNum = s})
CountInterval(v, kind, s, from, to) ==
  Cardinality({k \in 1 .. Len(v) :
                 /\ v[k].Type = kind /\ v[k].SlotNum = s
                 /\ v[k].StartTime = from /\ v[k].EndTime = to})

\* one category of slot s across a step at device time now: bit set and not
\* started, bit set and started, bit not set
Toggles(set, mask, kind, s, now, timeBefore, timeAfter) ==
  LET was == IsStarted(mAccelMonStartedEvents[s], mask)
      is == IsStarted(mAccelMonStartedEvents'[s], mask)
      emitted == CountKind(resultVector', kind, s) - CountKind(resultVector, kind, s)
  IN /\ (set /\ ~was) => (timeAfter = now /\ is /\ emitted = 0)
     /\ (set /\ was) =>
          /\ ~is
          /\ emitted = 1
          /\ CountInterval(resultVector', kind, s, timeBefore, now)
               = CountInterval(resultVector, kind, s, timeBefore, now) + 1
     /\ ~set => (is = was /\ timeAfter = timeBefore /\ emitted = 0)

SetMax(S) == CHOOSE x \in S : \A y \in S : y <= x

\* the last activity seen for compute unit c: its own and that of the memory
\* slots named after it
LastActivity(c) ==
  SetMax({mAccelMonLastTranx[c]}
           \cup {mPerfMonLastTranx[j] : j \in
                   {m \in MemSlots : MemorySlotName(m)[1] = AccelSlotName(c)}})

\* compute units the post-pass has an end to approximate for
Unfinished ==
  {c \in CuSlots : IsStarted(mAccelMonStartedEvents[c], 1) /\ LastActivity(c) # 0}

\* C9: the post-pass of a hardware call inserts at the front of the output
\* exactly one Kernel record for every compute unit whose Kernel bit is
\* started and whose last activity M (its own or that of a memory slot named
\* after it, whichever is later) is not zero, with the stored kernel start as
\* start and M as end, and nothing else; the post-pass of an emulation call
\* leaves the output as it is.
C9_PostPassSynthesis ==
  [][ pc = "post" =>
        IF isHwEmu THEN resultVector' = resultVector
        ELSE LET n == Cardinality(Unfinished)
             IN /\ Len(resultVector') = Len(resultVector) + n
                /\ SubSeq(resultVector', n + 1, Len(resultVector')) = resultVector
                /\ \A c \in Unfinished :
                     \E k \in 1 .. n :
                       /\ resultVector'[k].SlotNum = c
                       /\ resultVector'[k].Type = "Kernel"
                       /\ resultVector'[k].StartTime = mAccelMonCuTime[c]
                       /\ resultVector'[k].EndTime = LastActivity(c)
    ]_vars

\* a hardware call ended with compute unit 0 started and a later transaction
\* on its memory port: the kernel's end was approximated by that transaction
C9_Witness ==
  /\ ~isHwEmu
  /\ op = "post"
  /\ IsStarted(obs.started[0], 1)
  /\ Len(resultVector) = obs.rvLen + 1
  /\ resultVector[1].Type = "Kernel"
  /\ resultVector[1].SlotNum = 0
  /\ resultVector[1].StartTime = mAccelMonCuTime[0]
  /\ resultVector[1].EndTime = mPerfMonLastTranx[1]
  /\ mPerfMonLastTranx[1] > mAccelMonLastTranx[0]

\* C10: once a logTrace call has passed the entry check and returned, the
\* started events of every compute unit are zero whenever logTrace is not
\* running, and a post-pass run on that state, of either monitor type, adds no
\* record.
C10_StartedClearedAfterCall ==
  (pc = "idle" /\ lastBatch > 0) =>
    /\ \A c \in CuSlots : mAccelMonStartedEvents[c] = 0
    /\ \A ty \in Types : PostPass(Cur, FALSE, ty).resultVector = resultVector

\* a hardware call has approximated the end of a started kernel and returned
\* with the started events cleared
C10_Witness ==
  /\ pc = "idle"
  /\ op = "post"
  /\ ~isHwEmu
  /\ \E c \in CuSlots :
       /\ IsStarted(obs.started[c], 1)
       /\ resultVector[1].Type = "Kernel"
       /\ resultVector[1].SlotNum = c
       /\ mAccelMonLastTranx[c] # 0
  /\ Len(resultVector) > obs.rvLen
  /\ \A c \in CuSlots : mAccelMonStartedEvents[c] = 0

\* ------------------------------------------------------------------------
\* C11: the start queues persist across calls
\* ------------------------------------------------------------------------
startQueues == <<mReadStarts, mHostReadStarts, mWriteStarts, mHostWriteStarts>>

\* the end event of a step finds queue q non-empty: the oldest entry is taken,
\* the entries behind it stay in order (pushed is the number of starts the same
\* record pushed first), and a record of that kind emitted by the step starts
\* at the oldest entry
TakesOldest(q, qAfter, pushed, kind) ==
  LET new == SubSeq(resultVector', Len(resultVector) + 1, Len(resultVector'))
  IN /\ Len(qAfter) = Len(q) - 1 + pushed
     /\ SubSeq(qAfter, 1, Len(q) - 1) = Tail(q)
     /\ \A k \in 1 .. Len(new) : new[k].Type = kind => new[k].StartTime = Head(q)

\* number of start markers (0 or 1) of the given name in the record
Pushes(rec, first) == IF first \in rec.EventFlags THEN 1 ELSE 0

\* C11: the start queues of the memory slots are left as they are by the entry
\* and the return of logTrace, and an end event decoded while its queue is not
\* empty (in hardware mode without the reserved flag) takes the oldest entry of
\* the queue whichever call pushed it: a start left unmatched by one call is
\* paired with the first such end event of a later call.
C11_QueuesPersistAcrossCalls ==
  [][ /\ pc # "loop" => UNCHANGED startQueues
      /\ ( /\ pc = "loop" /\ ~isHwEmu /\ i >= 1
           /\ trace'.TraceID >= 2 /\ trace'.TraceID <= 61
           /\ trace'.EventType = END /\ trace'.Reserved # 1
           /\ HwQueueOf(trace', mReadStarts, mWriteStarts) # <<>> )
         => /\ TakesOldest(HwQueueOf(trace', mReadStarts, mWriteStarts),
                           HwQueueOf(trace', mReadStarts', mWriteStarts'), 0,
                           IF IS_READ(trace'.TraceID) THEN "Read" ELSE "Write")
            /\ Len(resultVector') = Len(resultVector) + 1
      /\ ( /\ pc = "loop" /\ isHwEmu /\ trace'.TraceID < 61
           /\ ~(trace'.HostTimestamp = prevHostTimestamp /\ trace'.Timestamp = 1) )
         => LET s == trace'.TraceID \div 2
                fl == trace'.EventFlags
            IN /\ ("XAPM_WRITE_LAST" \in fl /\ mWriteStarts[s] # <<>>)
                  => /\ TakesOldest(mWriteStarts[s], mWriteStarts'[s],
                                    Pushes(trace', "XAPM_WRITE_FIRST"), "Write")
                     /\ ("XAPM_READ_LAST" \in fl /\ mReadStarts[s] # <<>>)
                          => TakesOldest(mReadStarts[s], mReadStarts'[s],
                                         Pushes(trace', "XAPM_READ_FIRST"), "Read")
               /\ ( /\ "XAPM_WRITE_LAST" \notin fl
                    /\ "XAPM_READ_LAST" \in fl /\ mReadStarts[s] # <<>> )
                  => TakesOldest(mReadStarts[s], mReadStarts'[s],
                                 Pushes(trace', "XAPM_READ_FIRST"), "Read")
    ]_vars

\* the first record decoded by a hardware call is a read end that found a
\* start of an earlier call in the queue and was emitted with that start
C11_Witness ==
  /\ ~isHwEmu
  /\ op = "record"
  /\ i = 2
  /\ trace.TraceID = 2
  /\ trace.EventType = END
  /\ trace.Reserved = 0
  /\ ~obs.rEmpty
  /\ mReadStarts[1] = <<>>
  /\ Len(resultVector) = obs.rvLen + 1
  /\ LET t == resultVector[Len(resultVector)]
         f == fifo[1]["Read"]
     IN /\ t.Type = "Read"
        /\ f.starts # <<>>
        /\ t.StartTime = f.starts[1].t
        /\ t.StartTime # t.EndTime

\* ------------------------------------------------------------------------
\* C12: every record is forwarded to its decode path
\* ------------------------------------------------------------------------
\* what forwarding a hardware record to its decode path does, once: a
\* compute-unit record flips its category bits and sets the last activity, a
\* memory start is pushed, a memory end emits one transaction
HwForwarded ==
  LET id == trace'.TraceID
      now == trace'.Timestamp
               + (IF trace'.Overflow = 1 THEN LOOP_ADD_TIME_SPM ELSE 0)
  IN /\ (id >= 64 /\ id <= 544) =>
          LET s == (id - 64) \div 16
          IN /\ mAccelMonLastTranx'[s] = now
             /\ \A m \in {1, 2, 4, 8} :
                  IsStarted(mAccelMonStartedEvents'[s], m)
                    = (IsStarted(mAccelMonStartedEvents[s], m) # IsStarted(id, m))
     /\ (id >= 2 /\ id <= 61 /\ trace'.EventType = START) =>
          HwQueueOf(trace', mReadStarts', mWriteStarts')
            = Append(HwQueueOf(trace', mReadStarts, mWriteStarts), now)
     /\ (id >= 2 /\ id <= 61 /\ trace'.EventType = END) =>
          Len(resultVector') = Len(resultVector) + 1

\* the same for an emulation record that the duplicate-host-timestamp rule
\* does not skip
EmuForwarded ==
  LET id == trace'.TraceID
      fl == trace'.EventFlags
  IN /\ (id < 61 /\ "XAPM_WRITE_FIRST" \in fl) =>
          Len(mWriteStarts'[id \div 2])
            = Len(mWriteStarts[id \div 2]) + 1 - Pushes(trace', "XAPM_WRITE_LAST")
     /\ (id < 61 /\ "XAPM_WRITE_LAST" \notin fl /\ "XAPM_READ_FIRST" \in fl) =>
          Len(mReadStarts'[id \div 2])
            = Len(mReadStarts[id \div 2]) + 1 - Pushes(trace', "XAPM_READ_LAST")
     /\ (id >= 64 /\ id <= 94 /\ "XSAM_TRACE_CU" \in fl) =>
          IsStarted(mAccelMonStartedEvents'[id - 64], 1)
            # IsStarted(mAccelMonStartedEvents[id - 64], 1)

NotDuplicateHost ==
  ~(trace'.HostTimestamp = prevHostTimestamp /\ trace'.Timestamp = 1)

\* C12 (as stated): every record of an accepted batch, at every position, the
\* first two of a hardware batch included, is forwarded once to its decode
\* path unless a skip rule applies.
C12_EveryRecordForwarded ==
  [][ pc = "loop" =>
        /\ ~isHwEmu => HwForwarded
        /\ (isHwEmu /\ NotDuplicateHost) => EmuForwarded ]_vars

\* C12 (amended): every record of an accepted batch except the first record
\* of a hardware batch is forwarded once to its decode path unless a skip rule
\* applies; the first record of a hardware batch only gives the first
\* calibration point and is never decoded, the second gives the second
\* calibration point and is decoded as well.
C12_RecordsForwardedButHwFirst ==
  [][ pc = "loop" =>
        /\ (~isHwEmu /\ i >= 1) => HwForwarded
        /\ (~isHwEmu /\ i = 0) =>
             /\ UNCHANGED programState
             /\ x1' = trace'.Timestamp
             /\ y1' = trace'.HostTimestamp + HOST_SEND_DELAY
        /\ (isHwEmu /\ NotDuplicateHost) => EmuForwarded ]_vars

\* the second record of a hardware batch, a read end, was decoded and emitted;
\* the first record of the batch had emitted nothing
C12_Witness ==
  /\ ~isHwEmu
  /\ workload = "hw_read"
  /\ op = "record"
  /\ i = 2
  /\ trace.EventType = END
  /\ Len(resultVector) = obs.rvLen + 1
  /\ emptyAtEntry
  /\ Len(resultVector) = 1
  /\ mPerfMonLastTranx[1] = trace.Timestamp

\* ------------------------------------------------------------------------
\* C13: records with an id outside the decoded ranges
\* ------------------------------------------------------------------------
\* the step emits nothing and leaves queues, started events, stored start
\* times and last-activity times as they are
Skipped ==
  /\ resultVector' = resultVector
  /\ UNCHANGED startQueues
  /\ UNCHANGED <<mAccelMonStartedEvents, mAccelMonCuTime, mAccelMonCuHostTime,
                 mAccelMonStallIntTime, mAccelMonStallStrTime,
                 mAccelMonStallExtTime, mAccelMonLastTranx, mPerfMonLastTranx>>

\* C13 (as stated): in both modes a record whose id is not in 2..61 and not in
\* the compute-unit range of the mode (64..544 in hardware, 64..94 in
\* emulation) is skipped.
C13_UnknownIdsSkippedBothModes ==
  [][ ( /\ pc = "loop"
        /\ ~(trace'.TraceID >= 2 /\ trace'.TraceID <= 61)
        /\ ~(trace'.TraceID >= 64
               /\ trace'.TraceID <= (IF isHwEmu THEN 94 ELSE 544)) )
      => Skipped ]_vars

\* C13 (amended): a hardware record whose id is not in 2..61 or 64..544, and an
\* emulation record whose id is not in 0..60 or 64..94, is skipped; emulation
\* mode decodes ids 0 and 1 as memory slot 0.
C13_UnknownIdsSkipped ==
  [][ pc = "loop" =>
        /\ ( /\ ~isHwEmu
             /\ ~(trace'.TraceID >= 2 /\ trace'.TraceID <= 61)
             /\ ~(trace'.TraceID >= 64 /\ trace'.TraceID <= 544) )
           => Skipped
        /\ ( /\ isHwEmu
             /\ ~(trace'.TraceID >= 0 /\ trace'.TraceID <= 60)
             /\ ~(trace'.TraceID >= 64 /\ trace'.TraceID <= 94) )
           => Skipped
        /\ ( /\ isHwEmu /\ NotDuplicateHost
             /\ trace'.TraceID \in {0, 1}
             /\ trace'.EventFlags = {"XAPM_READ_FIRST"} )
           => Len(mReadStarts'[0]) = Len(mReadStarts[0]) + 1 ]_vars

\* an emulation record with id 62 and a read-first marker was skipped after
\* other records of the flow had been emitted
C13_Witness ==
  /\ isHwEmu
  /\ op = "record"
  /\ trace.TraceID = 62
  /\ "XAPM_READ_FIRST" \in trace.EventFlags
  /\ \A s \in MemSlots : mReadStarts[s] = <<>>
  /\ resultVector # <<>>
  /\ Len(resultVector) = obs.rvLen

\* ------------------------------------------------------------------------
\* C14, C15: clock training on the first two records of a hardware batch
\* ------------------------------------------------------------------------
\* slope * t + offset of monitor type ty
OnLine(t, ty) == XAdd(XMulInt(mTrainSlope[ty], t), mTrainOffset[ty])

\* the second record of a hardware batch has just been decoded: x1, y1 are the
\* first calibration point, the record gives the second
Trained == ~isHwEmu /\ op = "record" /\ i = 2

\* the line through the calibration points, and the conversion of the times of
\* a record the step emitted
AffineOnPair ==
  /\ XEq(OnLine(x1, type), Fin(y1, 1))
  /\ XEq(OnLine(trace.Timestamp, type),
         Fin(trace.HostTimestamp + HOST_SEND_DELAY, 1))
  /\ mTrainSlope[type]
       = XDiv(trace.HostTimestamp + HOST_SEND_DELAY - y1, trace.Timestamp - x1)
  /\ \A k \in obs.rvLen + 1 .. Len(resultVector) :
       LET t == resultVector[k]
           shift == Fin(mTrainProgramStart[type], 1)
       IN /\ XEq(t.Start, XSub(OnLine(t.StartTime, type), shift))
          /\ XEq(t.End, XSub(OnLine(t.EndTime, type), shift))

\* C14: after the training on the first two records (x1, y1), (x2, y2) of a
\* hardware batch, y being the host timestamp plus the delay constant,
\* slope * x1 + offset = y1 and slope * x2 + offset = y2, and a converted time
\* is slope * t + offset less the program start.
C14_AffineOnCalibrationPair == Trained => AffineOnPair

\* C14, the part that holds: the same when the two records differ in their
\* device time.
C14_AffineOnDistinctPair == (Trained /\ trace.Timestamp # x1) => AffineOnPair

\* C15: when the first two records of a hardware batch have the same device
\* time, the training leaves slope and offset as they were.
C15_DegeneratePairGuarded ==
  [][ (pc = "loop" /\ ~isHwEmu /\ i = 1 /\ trace'.Timestamp = x1)
      => UNCHANGED <<mTrainSlope, mTrainOffset>> ]_vars

\* ------------------------------------------------------------------------
\* C16: how often the host clocks are read
\* ------------------------------------------------------------------------
\* the step decodes the second record of a hardware-mode batch of type t
SecondHwRecord(t) == pc = "loop" /\ ~isHwEmu /\ i = 1 /\ type = t

\* C16 (as stated): the host clock is read and the program start computed at
\* most once per monitor type: once the clock was read for a type, no later
\* step reads it for that type again or changes the type's program start.
C16_ClockReadOncePerType ==
  [][ \A t \in Types :
        clockReads[t].n >= 1
        => /\ clockReads'[t] = clockReads[t]
           /\ mTrainProgramStart'[t] = mTrainProgramStart[t] ]_vars

\* what the code does: the host clocks are read, and the program start of the
\* call's monitor type is set to what they give, at the second record of every
\* hardware-mode batch, whether or not the type was trained before; no other
\* step reads the clocks or changes a program start.
ClockReadEveryHwBatch ==
  [][ \A t \in Types :
        IF SecondHwRecord(t)
        THEN /\ clockReads'[t].n =
                  (IF clockReads[t].n < MaxClockReads THEN clockReads[t].n + 1
                   ELSE MaxClockReads)
             /\ mTrainProgramStart'[t] = clockReads'[t].at
        ELSE /\ clockReads'[t] = clockReads[t]
             /\ mTrainProgramStart'[t] = mTrainProgramStart[t] ]_vars

\* ------------------------------------------------------------------------
\* C17: zero-length host intervals
\* ------------------------------------------------------------------------
\* the step decodes an emulation memory record
EmuMemoryStep ==
  /\ pc = "loop" /\ isHwEmu /\ trace'.TraceID < 61
  /\ ~(trace'.HostTimestamp = prevHostTimestamp /\ trace'.Timestamp = 1)

\* the end marker `last` of record rec is matched with a start whose host time
\* is the record's own: the oldest entry of host queue hq, or, the queue being
\* empty, the start the same record pushed
ZeroLengthMatch(rec, first, last, hq) ==
  /\ last \in rec.EventFlags
  /\ IF hq # <<>> THEN Head(hq) = rec.HostTimestamp ELSE first \in rec.EventFlags

\* the write half of the record ends the decoding of the record
WriteHalfDrops(rec, wq) ==
  /\ "XAPM_WRITE_LAST" \in rec.EventFlags
  /\ "XAPM_WRITE_FIRST" \notin rec.EventFlags
  /\ wq = <<>>

\* the records of one kind among those a step appended
NewOfKind(kind) ==
  SelectSeq(SubSeq(resultVector', Len(resultVector) + 1, Len(resultVector')),
            LAMBDA t : t.Type = kind)

\* one record of the kind was appended, with host interval [start, end]
EmitsHostInterval(kind, start, end) ==
  /\ Len(NewOfKind(kind)) = 1
  /\ NewOfKind(kind)[1].Start = start
  /\ NewOfKind(kind)[1].End = end

\* the step decodes a hardware memory end event that takes a start from its
\* queue
HwMatchedEnd ==
  /\ pc = "loop" /\ ~isHwEmu /\ i >= 1
  /\ trace'.TraceID >= 2 /\ trace'.TraceID <= 61
  /\ trace'.EventType = END /\ trace'.Reserved # 1
  /\ HwQueueOf(trace', mReadStarts, mWriteStarts) # <<>>

PaddedOrDropped(kind, h) ==
  LET end == XAdd(h, mEmuTraceMsecOneCycle)
  IN IF XGe(end, h) THEN EmitsHostInterval(kind, h, end)
     ELSE NewOfKind(kind) = <<>>

DeviceTimeNow ==
  IF isHwEmu THEN mPrevTimestamp'[type]
  ELSE trace'.Timestamp + (IF trace'.Overflow = 1 THEN LOOP_ADD_TIME_SPM ELSE 0)

\* the start device times a transaction of slot s and the given kind can get
\* in the step: the oldest entry of the slot's start queue, or the device time
\* of the record itself (a start pushed by the same record, or a single point)
StartTimesOf(s, kind) ==
  LET q == IF kind = "Read" THEN mReadStarts[s] ELSE mWriteStarts[s]
  IN {DeviceTimeNow} \cup (IF q # <<>> THEN {Head(q)} ELSE {})

FreshStart(set, mask, kind, s, now, timeAfter) ==
  (set /\ ~IsStarted(mAccelMonStartedEvents[s], mask))
    => /\ timeAfter = now
       /\ IsStarted(mAccelMonStartedEvents'[s], mask)
       /\ CountKind(resultVector', kind, s) = CountKind(resultVector, kind, s)

\* C20: a compute-unit interval never spans two logTrace calls.  A call that
\* follows a call that passed the entry check begins with no category of any
\* compute-unit slot started, whatever the earlier calls decoded; and an event
\* of a category that is not started is a fresh start: it stores its own
\* device time as the start and completes no interval.
C20_CuIntervalsWithinOneCall ==
  [][ /\ (pc = "idle" /\ pc' = "loop" /\ lastBatch > 0)
         => \A c \in CuSlots : mAccelMonStartedEvents[c] = 0
      /\ ( /\ pc = "loop" /\ ~isHwEmu /\ i >= 1
           /\ trace'.TraceID >= 64 /\ trace'.TraceID <= 544 )
         => LET id == trace'.TraceID
                s == (id - 64) \div 16
                now == trace'.Timestamp
                         + (IF trace'.Overflow = 1 THEN LOOP_ADD_TIME_SPM ELSE 0)
            IN /\ FreshStart(IsStarted(id, 1), 1, "Kernel", s, now,
                             mAccelMonCuTime'[s])
               /\ FreshStart(IsStarted(id, 2), 2, "Intra-Kernel Dataflow Stall",
                             s, now, mAccelMonStallIntTime'[s])
               /\ FreshStart(IsStarted(id, 4), 4, "Inter-Kernel Pipe Stall",
                             s, now, mAccelMonStallStrTime'[s])
               /\ FreshStart(IsStarted(id, 8), 8, "External Memory Stall",
                             s, now, mAccelMonStallExtTime'[s])
      /\ ( /\ pc = "loop" /\ isHwEmu
           /\ ~(trace'.HostTimestamp = prevHostTimestamp /\ trace'.Timestamp = 1)
           /\ trace'.TraceID >= 64 /\ trace'.TraceID <= 94 )
         => FreshStart("XSAM_TRACE_CU" \in trace'.EventFlags, 1, "Kernel",
                       trace'.TraceID - 64,
                       trace'.Timestamp + mPrevTimestamp[type]
                         + (IF trace'.Overflow = 1 THEN LOOP_ADD_TIME ELSE 0),
                       mAccelMonCuTime'[trace'.TraceID - 64])
    ]_vars

\* the first record decoded by a hardware call is a Kernel event of a slot for
\* which an earlier call left a Kernel record in the output: the event found
\* the category not started, emitted nothing and became the start of a new
\* interval
C20_Witness ==
  /\ ~isHwEmu
  /\ op = "record"
  /\ i = 2
  /\ ~emptyAtEntry
  /\ trace.TraceID >= 64
  /\ trace.Overflow = 0
  /\ IsStarted(trace.TraceID, 1)
  /\ LET c == (trace.TraceID - 64) \div 16
     IN /\ ~IsStarted(obs.started[c], 1)
        /\ IsStarted(mAccelMonStartedEvents[c], 1)
        /\ mAccelMonCuTime[c] = trace.Timestamp
        /\ Len(resultVector) = obs.rvLen
        /\ \E k \in 1 .. Len(resultVector) :
             /\ resultVector[k].Type = "Kernel"
             /\ resultVector[k].SlotNum = c

\* ------------------------------------------------------------------------
\* C21: shape of the hardware-mode output
\* ------------------------------------------------------------------------
AllKernel(v) == \A k \in 1 .. Len(v) : v[k].Type = "Kernel"
NoKernel(v) == \A k \in 1 .. Len(v) : v[k].Type # "Kernel"

\* place of a stall kind in the order the code tests the categories
StallRank(kind) ==
  CASE kind = "Intra-Kernel Dataflow Stall" -> 1
    [] kind = "Inter-Kernel Pipe Stall" -> 2
    [] kind = "External Memory Stall" -> 3
    [] OTHER -> 0

\* the records one step puts in front of the output: one completed Kernel
\* interval at most, or the intervals synthesized after the loop, the slot
\* synthesized last (the highest) first
FrontOfStep(v) ==
  /\ AllKernel(v)
  /\ pc = "loop" => Len(v) <= 1
  /\ \A a, b \in 1 .. Len(v) : a < b => v[a].SlotNum > v[b].SlotNum

\* the records one step puts behind the output: none of them a Kernel record,
\* the stall intervals of one record in the order of their categories
BackOfStep(v) ==
  /\ NoKernel(v)
  /\ pc = "post" => v = <<>>
  /\ \A a, b \in 1 .. Len(v) : a < b => StallRank(v[a].Type) < StallRank(v[b].Type)

\* C21: in hardware mode every step of a logTrace call keeps the output it
\* found as one piece, puts the Kernel records it completes or synthesizes in
\* front of it, the latest first, and the records of every other kind behind
\* it, in the order they are emitted; so in a call that started with an empty
\* output the output is, after every record, a block of Kernel records
\* followed by a block of records of other kinds.
C21_HwOutputBlocks ==
  [][ (~isHwEmu /\ pc \in {"loop", "post"})
      => /\ \E a \in 0 .. Len(resultVector') - Len(resultVector) :
              /\ SubSeq(resultVector', a + 1, a + Len(resultVector))
                   = resultVector
              /\ FrontOfStep(SubSeq(resultVector', 1, a))
              /\ BackOfStep(SubSeq(resultVector', a + Len(resultVector) + 1,
                                   Len(resultVector')))
         /\ emptyAtEntry => KernelsFirst(resultVector') ]_vars

\* a hardware record has completed a Kernel interval that was put in front of
\* an older Kernel record, itself ahead of a record of another kind, in a call
\* that started with an empty output
C21_Witness ==
  /\ ~isHwEmu
  /\ op = "record"
  /\ emptyAtEntry
  /\ Len(resultVector) = obs.rvLen + 1
  /\ Len(resultVector) >= 3
  /\ trace.TraceID >= 64
  /\ resultVector[1].Type = "Kernel"
  /\ resultVector[1].EndTime = trace.Timestamp
  /\ resultVector[2].Type = "Kernel"
  /\ resultVector[Len(resultVector)].Type # "Kernel"

\* ------------------------------------------------------------------------
\* C22: approximated ends under ordered device times
\* ------------------------------------------------------------------------
\* C22: every hardware compute-unit record stores its device time as the last
\* activity of its slot, the record that starts a kernel included; so when the
\* decoded records have come in non-decreasing order of device time, every
\* Kernel record the post-pass synthesizes ends at a stored last-activity time
\* (the slot's own or a memory slot's) that is not zero, not before the slot's
\* own last activity and not before the record's start.
C22_ApproxEndNotBeforeStart ==
  [][ /\ ( /\ pc = "loop" /\ ~isHwEmu /\ i >= 1
           /\ trace'.TraceID >= 64 /\ trace'.TraceID <= 544 )
         => LET s == (trace'.TraceID - 64) \div 16
                now == trace'.Timestamp
                         + (IF trace'.Overflow = 1 THEN LOOP_ADD_TIME_SPM ELSE 0)
            IN /\ mAccelMonLastTranx'[s] = now
               /\ IsStarted(mAccelMonStartedEvents'[s], 1)
                    => mAccelMonCuTime'[s] <= mAccelMonLastTranx'[s]
                         \/ ~deviceOrder'.ok
      /\ (pc = "post" /\ ~isHwEmu /\ deviceOrder.ok)
         => \A k \in 1 .. Len(resultVector') - Len(resultVector) :
              LET t == resultVector'[k]
              IN /\ t.Type = "Kernel"
                 /\ t.EndTime
                      \in {mAccelMonLastTranx[t.SlotNum]}
                            \cup {mPerfMonLastTranx[j] : j \in MemSlots}
                 /\ t.EndTime # 0
                 /\ t.EndTime >= mAccelMonLastTranx[t.SlotNum]
                 /\ t.EndTime >= t.StartTime ]_vars

\* a hardware call whose records, like all before them, came in the order of
\* their device times has ended with a kernel started: the synthesized Kernel
\* record ends at the time of a later transaction on the kernel's memory port,
\* after its start
C22_Witness ==
  /\ ~isHwEmu
  /\ op = "post"
  /\ deviceOrder.ok
  /\ Len(resultVector) > obs.rvLen
  /\ LET t == resultVector[1]
     IN /\ t.Type = "Kernel"
        /\ t.StartTime > 0
        /\ t.EndTime > t.StartTime
        /\ t.EndTime > mAccelMonLastTranx[t.SlotNum]
        /\ t.EndTime = deviceOrder.last

\* ------------------------------------------------------------------------
\* C23: an unmatched write end and the read markers of the same record
\* ------------------------------------------------------------------------
\* the step decodes an emulation memory record whose write-last marker finds
\* the write queue of its slot empty
UnmatchedWriteEndStep ==
  /\ EmuMemoryStep
  /\ WriteHalfDrops(trace', mWriteStarts[trace'.TraceID \div 2])

\* C23 (as stated): in emulation mode a record with an unmatched write-last
\* marker still has its read markers applied: a read-first marker pushes the
\* record's device time onto the read queue of the slot, and a read-last
\* marker that has a start to take takes it.
C23_ReadHalfSurvivesWriteDrop ==
  [][ UnmatchedWriteEndStep =>
        LET s == trace'.TraceID \div 2
            fl == trace'.EventFlags
            pushed == Pushes(trace', "XAPM_READ_FIRST")
            matched == "XAPM_READ_LAST" \in fl
                         /\ (mReadStarts[s] # <<>> \/ pushed = 1)
            q == mReadStarts'[s]
        IN /\ Len(q) = Len(mReadStarts[s]) + pushed - (IF matched THEN 1 ELSE 0)
           /\ (pushed = 1 /\ q # <<>>) => q[Len(q)] = mPrevTimestamp'[type]
    ]_vars

\* what the code does: the unmatched write-last marker ends the decoding of
\* the record; its read markers are not looked at, and neither the queues nor
\* the output change.
WriteDropEndsRecord ==
  [][ UnmatchedWriteEndStep
      => /\ UNCHANGED startQueues
         /\ resultVector' = resultVector
         /\ LoopContinues ]_vars

====
